---- MODULE Spec2Model ----
(***************************************************************************)
(* Pedersen commitments, the permute-and-rerandomize shuffle and the       *)
(* subset consistency check of the EVoting prototype (src/EVoting).        *)
(*                                                                         *)
(* Python lists are sequences; the program's 0-based indices are kept as   *)
(* values and translated to positions by At.  Results that the code        *)
(* returns as booleans or raises as exceptions are the strings "True",     *)
(* "False", "ValueError", "AssertionError" and "IndexError".               *)
(***************************************************************************)
EXTENDS Integers, Sequences, FiniteSets, TLC

VARIABLES
    ped,              \* Pedersen(p, g, h): the group parameters
    messages,         \* the message batch w_i
    inputs,           \* input commitments
    input_openings,   \* their openings r_i
    perm,             \* permutation argument / disclosed permutation
    rerands,          \* rerandomizers, indexed by original index
    outputs,          \* shuffled commitments C'_j
    perm_msgs,        \* permuted messages w'_j
    output_openings,  \* new openings r'_j
    subset,           \* subset argument of the last check
    result,           \* outcome of the last call
    com,              \* last Pedersen.commit call: arguments and return value
    ver,              \* last Pedersen.verify call: arguments and return value
    calls,            \* number of shuffle_and_prove calls made on the prover
    pc                \* position of the driver

vars == <<ped, messages, inputs, input_openings, perm, rerands, outputs,
          perm_msgs, output_openings, subset, result, com, ver, calls, pc>>

----------------------------------------------------------------------------
(* Bounds of the model *)

\* longest message batch of the protocol and shuffle specifications
MaxN == 2
\* largest message committed in the Pedersen specification
MaxMsg == 3
\* largest opening supplied explicitly to commit
MaxR == 13
\* largest perturbation |d| applied to a message or an opening before verify
MaxDelta == 12
\* most shuffle_and_prove calls made on one prover
MaxCalls == 2

\* Group parameters: small primes with the generators g = 2, h = 3 of the
\* tests.  Modulo 7, g has order 3 and h is a primitive root; modulo 13, g is
\* a primitive root and h has order 3.
Params == { [p |-> 7, g |-> 2, h |-> 3], [p |-> 13, g |-> 2, h |-> 3] }

\* Message batches: the batch of the protocol tests, and a ballot batch with
\* repeated votes.
Batches == { <<5, 15, 25, 35, 45>>, <<5, 8, 5, 15, 8>> }

\* The batch of TestSubsetCheck.setUp
TestMessages == <<10, 20, 30, 40>>

\* random.randint(lo, hi): every integer of lo..hi can be drawn
randint(lo, hi) == lo .. hi

\* Draws explored for an opening (of randint(1, p-1)): both ends of the range
OpeningDraws(p) == { r \in randint(1, p - 1) : r = 1 \/ r = p - 1 }

\* Draws explored for a rerandomizer (of randint(1, p-2)): both ends of the
\* range and 3, the order of h modulo 13
RerandDraws(p) == { d \in randint(1, p - 2) : d = 1 \/ d = 3 \/ d = p - 2 }

----------------------------------------------------------------------------
(* Python primitives *)

\* seq[i] for a 0-based index i (negative indices count from the end)
ValidIndex(seq, i) == i >= -Len(seq) /\ i < Len(seq)
At(seq, i) == IF i >= 0 THEN seq[i + 1] ELSE seq[Len(seq) + i + 1]

\* list(range(n))
Range(n) == [k \in 1..n |-> k - 1]

\* pow(b, e, m) for e >= 0, by square and multiply
RECURSIVE pow(_, _, _)
pow(b, e, m) ==
    IF e = 0 THEN 1 % m
    ELSE LET half == pow(b, e \div 2, m)
             sq   == (half * half) % m
         IN IF e % 2 = 1 THEN (sq * b) % m ELSE sq

----------------------------------------------------------------------------
(* pedersen.py *)

\* Variant of commit with the generators exchanged: h^w * g^r
commit_GeneratorsExchanged(pd, w, ropt, draw) ==
    LET r == IF ropt = <<>> THEN draw ELSE ropt[1]
        c == (pow(pd.h, w, pd.p) * pow(pd.g, r, pd.p)) % pd.p
    IN <<c, r>>

\* The optional opening is <<>> (None) or <<r>>; draw is the value
\* random.randint(1, p-1) returns if it is called.
commit(pd, w, ropt, draw) ==
    LET r == IF ropt = <<>> THEN draw ELSE ropt[1]
        c == (pow(pd.g, w, pd.p) * pow(pd.h, r, pd.p)) % pd.p
    IN <<c, r>>

\* Variant of verify that leaves the opening out of the expected commitment
verify_OpeningIgnored(pd, c, w, r) ==
    LET expected == pow(pd.g, w, pd.p) % pd.p
    IN c = expected

verify(pd, c, w, r) ==
    LET expected == (pow(pd.g, w, pd.p) * pow(pd.h, r, pd.p)) % pd.p
    IN c = expected

----------------------------------------------------------------------------
(* shuffle.py *)

\* A raised exception or a returned value
Raise(exc) == [status |-> exc]
Return(v)  == [status |-> "ok", value |-> v]

apply_permutation(vec, pm) ==
    IF Len(vec) # Len(pm) THEN Raise("AssertionError")
    ELSE IF \E i \in 1..Len(vec) : ~ValidIndex(vec, pm[i]) THEN Raise("IndexError")
    ELSE Return([i \in 1..Len(vec) |-> At(vec, pm[i])])

\* Variant that permutes vec in place
apply_permutation_leaves_InPlace(vec, pm) ==
    IF apply_permutation(vec, pm).status = "ok"
    THEN apply_permutation(vec, pm).value ELSE vec

\* The list passed as vec once apply_permutation has returned: the loop
\* writes to the new list out and only reads vec
apply_permutation_leaves(vec, pm) == vec

\* random_permutation(n): every bijection on 0..n-1 can come out of
\* random.shuffle(list(range(n)))
random_permutation(n) ==
    { f \in [1..n -> 0..(n - 1)] : \A a, b \in 1..n : f[a] = f[b] => a = b }

\* Variant taking the rerandomizer of the output position: rerands[j]
RerandIndex_ByPosition(pm, j) == j

\* The index of the rerandomizer added at output position j: rerands[perm[j]]
RerandIndex(pm, j) == At(pm, j)

\* Variant reducing the new openings modulo p
ExponentModulus_P(pd) == pd.p

\* The modulus of the new openings: ped.p - 1
ExponentModulus(pd) == pd.p - 1

shuffle_commitments(pd, msgs, opens, pm, rr) ==
    IF ~(Len(msgs) = Len(opens) /\ Len(opens) = Len(pm) /\ Len(pm) = Len(rr))
    THEN Raise("AssertionError")
    ELSE
    LET n  == Len(msgs)
        pM == apply_permutation(msgs, pm)
        pO == apply_permutation(opens, pm)
    IN  IF pM.status # "ok" THEN pM
        ELSE IF pO.status # "ok" THEN pO
        ELSE
        LET new_openings ==
                [j \in 1..n |->
                    (pO.value[j] + At(rr, RerandIndex(pm, j - 1))) % ExponentModulus(pd)]
            shuffled_commitments ==
                [j \in 1..n |->
                    (pow(pd.g, pM.value[j], pd.p)
                       * pow(pd.h, new_openings[j], pd.p)) % pd.p]
        IN Return([outputs |-> shuffled_commitments,
                   perm_msgs |-> pM.value,
                   new_openings |-> new_openings])

----------------------------------------------------------------------------
(* subset_check.py *)

\* product_commitments(commitments, indices, p), the loop unrolled from the
\* first k indices
RECURSIVE ProductUpTo(_, _, _, _)
ProductUpTo(commitments, indices, p, k) ==
    IF k = 0 THEN 1
    ELSE (ProductUpTo(commitments, indices, p, k - 1)
            * At(commitments, indices[k])) % p

\* Variant whose loop misses the first index
product_commitments_FirstSkipped(commitments, indices, p) ==
    ProductUpTo(commitments, Tail(indices), p, Len(indices) - 1)

product_commitments(commitments, indices, p) ==
    ProductUpTo(commitments, indices, p, Len(indices))

\* Variant of invert_permutation that returns perm as it is
invert_permutation_NotInverted(pm) == pm

\* invert_permutation: inv = [0]*n, then inv[i] = j for j, i in enumerate(perm),
\* in order, so a repeated i keeps the last j and a missing i keeps 0
RECURSIVE InvertUpTo(_, _)
InvertUpTo(pm, k) ==
    IF k = 0 THEN [i \in 1..Len(pm) |-> 0]
    ELSE LET i   == pm[k]
             pos == IF i >= 0 THEN i + 1 ELSE Len(pm) + i + 1
         IN [InvertUpTo(pm, k - 1) EXCEPT ![pos] = k - 1]

invert_permutation(pm) == InvertUpTo(pm, Len(pm))

\* Variant without the emptiness test
NotSubset_Never(sub) == FALSE

\* `if not subset`
NotSubset(sub) == sub = <<>>

\* Variant with output minus input randomness
OpeningDelta_Reversed(ri, rj) == rj - ri

\* The term added to R for original index i at output position j
OpeningDelta(ri, rj) == ri - rj

\* R after the first k indices of the subset
RECURSIVE RUpTo(_, _, _, _, _, _)
RUpTo(in_open, out_open, inv_perm, sub, mod_order, k) ==
    IF k = 0 THEN 0
    ELSE LET i == sub[k]
             j == At(inv_perm, i)
         IN (RUpTo(in_open, out_open, inv_perm, sub, mod_order, k - 1)
               + OpeningDelta(At(in_open, i), At(out_open, j))) % mod_order

\* rhs (before the h^R factor) after the first k indices of the subset
RECURSIVE RhsUpTo(_, _, _, _, _)
RhsUpTo(outs, inv_perm, sub, p, k) ==
    IF k = 0 THEN 1
    ELSE (RhsUpTo(outs, inv_perm, sub, p, k - 1)
            * At(outs, At(inv_perm, sub[k]))) % p

\* The list accesses of the loop over the subset that raise IndexError
LoopIndexError(in_open, outs, out_open, pm, inv_perm, sub) ==
    \E k \in 1..Len(sub) :
       \/ ~ValidIndex(inv_perm, sub[k])
       \/ ~ValidIndex(outs, At(inv_perm, sub[k]))
       \/ ~ValidIndex(in_open, sub[k])
       \/ ~ValidIndex(out_open, At(inv_perm, sub[k]))

subset_check(pd, ins, in_open, outs, out_open, pm, sub) ==
    IF NotSubset(sub) THEN "ValueError"
    ELSE IF \E k \in 1..Len(sub) : ~ValidIndex(ins, sub[k]) THEN "IndexError"
    ELSE IF \E k \in 1..Len(pm) : ~ValidIndex(pm, pm[k]) THEN "IndexError"
    ELSE
    LET lhs       == product_commitments(ins, sub, pd.p)
        inv_perm  == invert_permutation(pm)
        mod_order == pd.p - 1
        R   == RUpTo(in_open, out_open, inv_perm, sub, mod_order, Len(sub))
        rhs == (RhsUpTo(outs, inv_perm, sub, pd.p, Len(sub)) * pow(pd.h, R, pd.p)) % pd.p
    IN IF LoopIndexError(in_open, outs, out_open, pm, inv_perm, sub) THEN "IndexError"
       ELSE IF lhs = rhs THEN "True" ELSE "False"

----------------------------------------------------------------------------
(* fullprotocol.py *)

\* Variant of ProtocolVerifier.check passing the two opening lists exchanged
ProtocolVerifier_check_OpeningsExchanged(pd, sub, ins, in_open, outs, out_open, pm) ==
    subset_check(pd, ins, out_open, outs, in_open, pm, sub)

\* ProtocolVerifier.check
ProtocolVerifier_check(pd, sub, ins, in_open, outs, out_open, pm) ==
    subset_check(pd, ins, in_open, outs, out_open, pm, sub)

----------------------------------------------------------------------------
(* The commitment scheme on its own: one commit, then one verify of the      *)
(* commitment against a perturbed message or opening (TestPedersen).         *)

NoCall == [op |-> "none"]

InitPedersen ==
    /\ ped \in Params
    /\ messages = <<>> /\ inputs = <<>> /\ input_openings = <<>>
    /\ perm = <<>> /\ rerands = <<>>
    /\ outputs = <<>> /\ perm_msgs = <<>> /\ output_openings = <<>>
    /\ subset = <<>> /\ result = "none"
    /\ com = NoCall /\ ver = NoCall /\ calls = 0
    /\ pc = "idle"

\* c, r = ped.commit(w) or ped.commit(w, r)
PedCommit ==
    /\ pc = "idle"
    /\ \E w \in 0..MaxMsg, ropt \in {<<>>} \cup {<<r>> : r \in 0..MaxR},
          draw \in randint(1, ped.p - 1) :
          LET res == commit(ped, w, ropt, draw)
          IN com' = [op |-> "commit", w |-> w, ropt |-> ropt,
                     c |-> res[1], r |-> res[2]]
    /\ pc' = "committed"
    /\ UNCHANGED <<ped, messages, inputs, input_openings, perm, rerands, outputs,
                   perm_msgs, output_openings, subset, result, ver, calls>>

\* ped.verify(c, w + d, r) or ped.verify(c, w, r + d)
PedVerify ==
    /\ pc = "committed"
    /\ \E kind \in {"message", "opening"}, d \in (-MaxDelta)..MaxDelta :
          LET w == IF kind = "message" THEN com.w + d ELSE com.w
              r == IF kind = "opening" THEN com.r + d ELSE com.r
          IN /\ w >= 0 /\ r >= 0
             /\ ver' = [op |-> "verify", kind |-> kind, d |-> d, c |-> com.c,
                        w |-> w, r |-> r, ok |-> verify(ped, com.c, w, r)]
    /\ pc' = "verified"
    /\ UNCHANGED <<ped, messages, inputs, input_openings, perm, rerands, outputs,
                   perm_msgs, output_openings, subset, result, com, calls>>

NextPedersen == PedCommit \/ PedVerify

SpecPedersen == InitPedersen /\ [][NextPedersen]_vars

\* The multiplicative order of x modulo p
Order(x, p) == CHOOSE k \in 1..(p - 1) :
                  /\ pow(x, k, p) = 1
                  /\ \A m \in 1..(k - 1) : pow(x, m, p) # 1

\* C5: commit(w, r) returns (g^w * h^r mod p, r) with the opening it was
\* given, or an opening of [1, p-1] when none was given, and verify accepts
\* the returned commitment with the message and the returned opening.
C5_CommitVerifyRoundTrip ==
    /\ pc \in {"committed", "verified"} =>
          /\ com.c = (pow(ped.g, com.w, ped.p) * pow(ped.h, com.r, ped.p)) % ped.p
          /\ com.ropt # <<>> => com.r = com.ropt[1]
          /\ com.ropt = <<>> => com.r \in 1..(ped.p - 1)
          /\ verify(ped, com.c, com.w, com.r)
    /\ (pc = "verified" /\ ver.d = 0) => ver.ok

C5_Witness ==
    /\ pc = "verified" /\ ver.d = 0 /\ ver.ok
    /\ com.ropt = <<>> /\ com.r = ped.p - 1 /\ com.w > 0

\* C6 as claimed: verify rejects the commitment for every nonzero
\* perturbation d of the message or of the opening.
C6_AnyNonzeroPerturbationRejected ==
    (pc = "verified" /\ ver.d # 0) => ~ver.ok

\* C6 amended: verify rejects a message perturbed by d exactly when d is not a
\* multiple of the order of g modulo p, and an opening perturbed by d exactly
\* when d is not a multiple of the order of h modulo p.
C6_PerturbationRejectedUnlessMultipleOfOrder ==
    pc = "verified" =>
       /\ ver.kind = "message" => (ver.ok <=> ver.d % Order(ped.g, ped.p) = 0)
       /\ ver.kind = "opening" => (ver.ok <=> ver.d % Order(ped.h, ped.p) = 0)

C6_Witness ==
    /\ pc = "verified" /\ ver.kind = "opening" /\ ver.d # 0
    /\ ver.d % Order(ped.h, ped.p) = 0 /\ ver.ok

----------------------------------------------------------------------------
(* One protocol run (run_protocol_once): commit every message of the batch,  *)
(* shuffle and prove, check the disclosed transcript on the full index set.  *)

\* ProtocolProver.shuffle_and_prove, for the permutation pm and the
\* rerandomizers rr that it draws
ProtocolProver_shuffle_and_prove(pd, msgs, opens, pm, rr) ==
    LET res == shuffle_commitments(pd, msgs, opens, pm, rr)
    IN IF res.status # "ok" THEN res
       ELSE Return([outputs |-> res.value.outputs,
                    perm_msgs |-> res.value.perm_msgs,
                    output_openings |-> res.value.new_openings,
                    perm |-> pm])

Init ==
    /\ ped \in Params
    /\ messages \in { SubSeq(b, 1, n) : b \in Batches, n \in 1..MaxN }
    /\ inputs = <<>> /\ input_openings = <<>>
    /\ perm = <<>> /\ rerands = <<>>
    /\ outputs = <<>> /\ perm_msgs = <<>> /\ output_openings = <<>>
    /\ subset = <<>> /\ result = "none"
    /\ com = NoCall /\ ver = NoCall /\ calls = 0
    /\ pc = "commit"

\* One iteration of `for w in messages: c, r = ped.commit(w)`
CommitNext ==
    /\ pc = "commit"
    /\ LET k == Len(inputs) + 1
       IN /\ \E draw \in OpeningDraws(ped.p) :
                LET res == commit(ped, messages[k], <<>>, draw)
                IN /\ inputs' = Append(inputs, res[1])
                   /\ input_openings' = Append(input_openings, res[2])
          /\ pc' = IF k = Len(messages) THEN "shuffle" ELSE "commit"
    /\ UNCHANGED <<ped, messages, perm, rerands, outputs, perm_msgs,
                   output_openings, subset, result, com, ver, calls>>

\* outputs, perm_msgs, output_openings, perm = prover.shuffle_and_prove()
ShuffleAndProve ==
    /\ pc = "shuffle"
    /\ \E pm \in random_permutation(Len(messages)),
          rr \in [1..Len(messages) -> RerandDraws(ped.p)] :
          LET res == ProtocolProver_shuffle_and_prove(
                         ped, messages, input_openings, pm, rr)
          IN /\ res.status = "ok"
             /\ outputs' = res.value.outputs
             /\ perm_msgs' = res.value.perm_msgs
             /\ output_openings' = res.value.output_openings
             /\ perm' = res.value.perm
             /\ rerands' = rr
    /\ pc' = "verify"
    /\ UNCHANGED <<ped, messages, inputs, input_openings, subset, result, com, ver, calls>>

\* result = verifier.check(list(range(len(messages))), ...)
Check ==
    /\ pc = "verify"
    /\ subset' = Range(Len(messages))
    /\ result' = ProtocolVerifier_check(ped, subset', inputs, input_openings,
                                        outputs, output_openings, perm)
    /\ pc' = "done"
    /\ UNCHANGED <<ped, messages, inputs, input_openings, perm, rerands, outputs,
                   perm_msgs, output_openings, com, ver, calls>>

Next == CommitNext \/ ShuffleAndProve \/ Check

Spec == Init /\ [][Next]_vars

\* random.sample(range(n), k) for k in 1..n: the lists of distinct indices
Samples(n) ==
    UNION { { s \in [1..k -> 0..(n - 1)] : \A a, b \in 1..k : s[a] = s[b] => a = b }
            : k \in 1..n }

\* The non-empty subsets of 0..n-1, each as its ascending list
Subsets(n) == { s \in Samples(n) : \A a, b \in 1..Len(s) : a < b => s[a] < s[b] }

\* i occurs in the list s
Occurs(i, s) == \E k \in 1..Len(s) : s[k] = i

\* C1: against an honest shuffle transcript, subset_check and Verifier.check
\* return true for every non-empty list of distinct original indices, the full
\* index set included.
C1_HonestShuffleAccepted ==
    pc = "done" =>
       /\ result = "True"
       /\ \A s \in Samples(Len(messages)) :
             ProtocolVerifier_check(ped, s, inputs, input_openings, outputs,
                                    output_openings, perm) = "True"

C1_Witness ==
    /\ pc = "done" /\ result = "True" /\ Len(messages) >= 2
    /\ perm # Range(Len(messages))
    /\ \E j \in 1..Len(messages) :
          input_openings[At(perm, j - 1) + 1] + At(rerands, At(perm, j - 1)) >= ped.p - 1

\* bad_outputs = outputs[:]; bad_outputs[j] = c
Corrupt(outs, j, c) == [outs EXCEPT ![j + 1] = c]

\* C2: with the single output commitment at position inv_perm[i] of an honest
\* transcript replaced by any different value modulo p, Verifier.check
\* returns false for every subset of distinct original indices containing i.
C2_CorruptedOutputRejected ==
    pc = "done" =>
       \A i \in 0..(Len(messages) - 1) :
          LET j == At(invert_permutation(perm), i)
          IN \A c \in (0..(ped.p - 1)) \ {At(outputs, j)} :
                \A s \in Subsets(Len(messages)) :
                   Occurs(i, s) =>
                      ProtocolVerifier_check(ped, s, inputs, input_openings,
                                             Corrupt(outputs, j, c),
                                             output_openings, perm) = "False"

C2_Witness ==
    /\ pc = "done" /\ Len(messages) >= 2 /\ result = "True"
    /\ At(invert_permutation(perm), 0) # 0
    /\ ProtocolVerifier_check(
           ped, <<0, 1>>, inputs, input_openings,
           Corrupt(outputs, At(invert_permutation(perm), 0),
                   (At(outputs, At(invert_permutation(perm), 0)) * 5) % ped.p),
           output_openings, perm) = "False"

\* The sum of the messages at the indices f[i + 1], for i in the list s
RECURSIVE MessageSum(_, _, _, _)
MessageSum(msgs, f, s, k) ==
    IF k = 0 THEN 0 ELSE MessageSum(msgs, f, s, k - 1) + At(msgs, At(f, s[k]))

\* The original index whose commitment the claimed permutation pm2 pairs with
\* original index i: perm[inv_perm2[i]]
PairedIndex(pm, pm2) ==
    [k \in 1..Len(pm) |-> At(pm, At(invert_permutation(pm2), k - 1))]

\* C3 as claimed: with a different bijection claimed as the permutation of an
\* honest transcript, Verifier.check returns false for every non-empty subset.
C3_WrongPermutationRejected ==
    pc = "done" =>
       \A pm2 \in random_permutation(Len(messages)) \ {perm} :
          \A s \in Subsets(Len(messages)) :
             ProtocolVerifier_check(ped, s, inputs, input_openings, outputs,
                                    output_openings, pm2) = "False"

\* C3 amended: with a different bijection pm2 claimed, Verifier.check returns
\* false for a non-empty subset I exactly when g to the sum of the messages of
\* I differs modulo p from g to the sum of the messages at perm[inv_pm2[i]],
\* i in I; it returns true otherwise, as it does for the full index set.
C3_WrongPermutationRejectedIffSumsDiffer ==
    pc = "done" =>
       \A pm2 \in random_permutation(Len(messages)) \ {perm} :
          /\ \A s \in Subsets(Len(messages)) :
                (ProtocolVerifier_check(ped, s, inputs, input_openings, outputs,
                                        output_openings, pm2) = "False")
                <=> (pow(ped.g, MessageSum(messages, Range(Len(messages)), s, Len(s)), ped.p)
                       # pow(ped.g, MessageSum(messages, PairedIndex(perm, pm2), s, Len(s)), ped.p))
          /\ ProtocolVerifier_check(ped, Range(Len(messages)), inputs,
                                    input_openings, outputs, output_openings,
                                    pm2) = "True"

C3_Witness ==
    /\ pc = "done" /\ Len(messages) >= 2
    /\ \E pm2 \in random_permutation(Len(messages)) \ {perm} :
          /\ ProtocolVerifier_check(ped, <<0>>, inputs, input_openings, outputs,
                                    output_openings, pm2) = "False"
          /\ ProtocolVerifier_check(ped, Range(Len(messages)), inputs,
                                    input_openings, outputs, output_openings,
                                    pm2) = "True"

----------------------------------------------------------------------------
(* Direct calls of the shuffle engine and of the checker on a committed      *)
(* batch (TestShuffle, TestSubsetCheck), with any index list as perm.        *)

\* Permutation arguments: every list of n indices of 0..n-1, bijection or
\* not, and a list one index short
PermArgs(n) == [1..n -> 0..(n - 1)] \cup { Range(n - 1) }

IsBijection(pm, n) == pm \in random_permutation(n)

\* setUp: the batch is committed with drawn openings
InitShuffle ==
    /\ ped \in Params
    /\ messages \in { SubSeq(b, 1, n) : b \in Batches, n \in 1..MaxN }
    /\ input_openings \in [1..Len(messages) -> OpeningDraws(ped.p)]
    /\ inputs = [k \in 1..Len(messages) |->
                    commit(ped, messages[k], <<>>, input_openings[k])[1]]
    /\ perm = <<>> /\ rerands = <<>>
    /\ outputs = <<>> /\ perm_msgs = <<>> /\ output_openings = <<>>
    /\ subset = <<>> /\ result = "none"
    /\ com = NoCall /\ ver = NoCall /\ calls = 0
    /\ pc = "ready"

\* apply_permutation(self.messages, perm)
ApplyPermutation ==
    /\ pc = "ready"
    /\ \E pm \in PermArgs(Len(messages)) :
          LET res == apply_permutation(messages, pm)
          IN /\ perm' = pm
             /\ result' = res.status
             /\ perm_msgs' = IF res.status = "ok" THEN res.value ELSE <<>>
    /\ pc' = "applied"
    /\ UNCHANGED <<ped, messages, inputs, input_openings, rerands, outputs,
                   output_openings, subset, com, ver, calls>>

\* shuffle_commitments(self.ped, self.messages, self.openings, perm, rerands)
ShuffleCommitments ==
    /\ pc = "ready"
    /\ \E pm \in PermArgs(Len(messages)),
          rr \in [1..Len(messages) -> RerandDraws(ped.p)] :
          LET res == shuffle_commitments(ped, messages, input_openings, pm, rr)
          IN /\ perm' = pm
             /\ rerands' = rr
             /\ result' = res.status
             /\ outputs' = IF res.status = "ok" THEN res.value.outputs ELSE <<>>
             /\ perm_msgs' = IF res.status = "ok" THEN res.value.perm_msgs ELSE <<>>
             /\ output_openings' =
                   IF res.status = "ok" THEN res.value.new_openings ELSE <<>>
    /\ pc' = "shuffled"
    /\ UNCHANGED <<ped, messages, inputs, input_openings, subset, com, ver, calls>>

\* subset_check(...) on the shuffle's result and its perm argument, with the
\* empty subset or the full index set
SubsetCheck ==
    /\ pc = "shuffled" /\ result = "ok"
    /\ \E s \in { <<>>, Range(Len(messages)) } :
          /\ subset' = s
          /\ result' = subset_check(ped, inputs, input_openings, outputs,
                                    output_openings, perm, s)
    /\ pc' = "checked"
    /\ UNCHANGED <<ped, messages, inputs, input_openings, perm, rerands, outputs,
                   perm_msgs, output_openings, com, ver, calls>>

NextShuffle == ApplyPermutation \/ ShuffleCommitments \/ SubsetCheck

SpecShuffle == InitShuffle /\ [][NextShuffle]_vars

\* C4: for a bijection perm, shuffle returns at every output position j the
\* message of original index perm[j], the opening of perm[j] plus the
\* rerandomizer of perm[j] modulo p-1, and the commitment to that message
\* under that opening, which verify accepts.
C4_ShuffleMatchesReference ==
    (pc = "shuffled" /\ IsBijection(perm, Len(messages))) =>
       /\ result = "ok"
       /\ \A j \in 0..(Len(messages) - 1) :
             /\ At(perm_msgs, j) = At(messages, At(perm, j))
             /\ At(output_openings, j) =
                   (At(input_openings, At(perm, j)) + At(rerands, At(perm, j)))
                      % (ped.p - 1)
             /\ At(outputs, j) =
                   (pow(ped.g, At(perm_msgs, j), ped.p)
                      * pow(ped.h, At(output_openings, j), ped.p)) % ped.p
             /\ verify(ped, At(outputs, j), At(perm_msgs, j), At(output_openings, j))

C4_Witness ==
    /\ pc = "shuffled" /\ result = "ok" /\ Len(messages) >= 2
    /\ IsBijection(perm, Len(messages)) /\ perm # Range(Len(messages))
    /\ At(rerands, 0) # At(rerands, 1)

\* C7: subset_check and Verifier.check raise ValueError on an empty subset,
\* whatever the other arguments are: also where reading the commitments, the
\* openings or the permutation would raise an error of its own.
C7_EmptySubsetIsError ==
    /\ (pc = "checked" /\ subset = <<>>) => result = "ValueError"
    /\ pc \in {"shuffled", "checked"} =>
          \A pm \in {perm, <<>>, <<Len(messages)>>},
             ins \in {inputs, <<>>}, outs \in {outputs, <<>>} :
             /\ subset_check(ped, ins, input_openings, outs, output_openings,
                             pm, <<>>) = "ValueError"
             /\ ProtocolVerifier_check(ped, <<>>, ins, input_openings, outs,
                                       output_openings, pm) = "ValueError"

C7_Witness ==
    /\ pc = "checked" /\ subset = <<>> /\ result = "ValueError"
    /\ ~IsBijection(perm, Len(messages))

\* C8 as claimed: apply_permutation, shuffle and subset_check abort with a
\* validation error when perm has the right length and is not a bijection.
C8_NonBijectionRejected ==
    (pc \in {"applied", "shuffled", "checked"}
        /\ Len(perm) = Len(messages) /\ ~IsBijection(perm, Len(messages)))
    => result \in {"ValueError", "AssertionError"}

\* C10 as claimed: under the identity permutation the permuted messages are
\* the original messages and, at every position, the new opening differs from
\* the original opening, the output commitment differs from the original
\* commitment, and verify accepts the output.
C10_IdentityChangesEveryCommitment ==
    (pc = "shuffled" /\ perm = Range(Len(messages))) =>
       /\ result = "ok" /\ perm_msgs = messages
       /\ \A j \in 0..(Len(messages) - 1) :
             /\ At(output_openings, j) # At(input_openings, j)
             /\ At(outputs, j) # At(inputs, j)
             /\ verify(ped, At(outputs, j), At(messages, j), At(output_openings, j))

\* C10 amended: as claimed, except that the output commitment at position j
\* differs from the original commitment exactly when rerandomizers[j] is not a
\* multiple of the order of h modulo p.
C10_IdentityChangesCommitmentUnlessMultipleOfOrder ==
    (pc = "shuffled" /\ perm = Range(Len(messages))) =>
       /\ result = "ok" /\ perm_msgs = messages
       /\ \A j \in 0..(Len(messages) - 1) :
             /\ At(output_openings, j) # At(input_openings, j)
             /\ (At(outputs, j) # At(inputs, j))
                   <=> (At(rerands, j) % Order(ped.h, ped.p) # 0)
             /\ verify(ped, At(outputs, j), At(messages, j), At(output_openings, j))

C10_Witness ==
    /\ pc = "shuffled" /\ perm = Range(Len(messages)) /\ Len(messages) >= 2
    /\ At(outputs, 0) = At(inputs, 0) /\ At(outputs, 1) # At(inputs, 1)
    /\ At(input_openings, 1) = ped.p - 1

----------------------------------------------------------------------------
(* TestSubsetCheck: setUp commits the batch of four messages and shuffles    *)
(* it; test_cheating_shuffle_fails_subset_check corrupts output position 0.  *)

InitTest ==
    /\ ped \in Params
    /\ messages = TestMessages
    /\ inputs = <<>> /\ input_openings = <<>>
    /\ perm = <<>> /\ rerands = <<>>
    /\ outputs = <<>> /\ perm_msgs = <<>> /\ output_openings = <<>>
    /\ subset = <<>> /\ result = "none"
    /\ com = NoCall /\ ver = NoCall /\ calls = 0
    /\ pc = "setUp"

\* setUp: one iteration of `for w in self.messages: c, r = self.ped.commit(w)`
SetUpCommit ==
    /\ pc = "setUp"
    /\ LET k == Len(inputs) + 1
       IN /\ \E draw \in OpeningDraws(ped.p) :
                LET res == commit(ped, messages[k], <<>>, draw)
                IN /\ inputs' = Append(inputs, res[1])
                   /\ input_openings' = Append(input_openings, res[2])
          /\ pc' = IF k = Len(messages) THEN "setUpShuffle" ELSE "setUp"
    /\ UNCHANGED <<ped, messages, perm, rerands, outputs, perm_msgs,
                   output_openings, subset, result, com, ver, calls>>

\* setUp: self.perm = random_permutation(n); rerands drawn; shuffle_commitments
SetUpShuffle ==
    /\ pc = "setUpShuffle"
    /\ \E pm \in random_permutation(Len(messages)),
          rr \in [1..Len(messages) -> RerandDraws(ped.p)] :
          LET res == shuffle_commitments(ped, messages, input_openings, pm, rr)
          IN /\ res.status = "ok"
             /\ perm' = pm
             /\ rerands' = rr
             /\ outputs' = res.value.outputs
             /\ perm_msgs' = res.value.perm_msgs
             /\ output_openings' = res.value.new_openings
    /\ pc' = "test"
    /\ UNCHANGED <<ped, messages, inputs, input_openings, subset, result, com, ver, calls>>

\* test_cheating_shuffle_fails_subset_check: the value whose falsity it asserts
TestCheating ==
    /\ pc = "test"
    /\ LET bad_outputs == Corrupt(outputs, 0, (At(outputs, 0) * 5) % ped.p)
       IN /\ subset' = <<0, 1>>
          /\ result' = subset_check(ped, inputs, input_openings, bad_outputs,
                                    output_openings, perm, subset')
    /\ pc' = "cheated"
    /\ UNCHANGED <<ped, messages, inputs, input_openings, perm, rerands, outputs,
                   perm_msgs, output_openings, com, ver, calls>>

NextTest == SetUpCommit \/ SetUpShuffle \/ TestCheating

SpecSubsetTest == InitTest /\ [][NextTest]_vars

\* C9: with the output commitment at output position 0 multiplied by 5 mod p,
\* subset_check on the subset [0, 1] of original indices returns false, for
\* every permutation random_permutation can return.
C9_CorruptionAtPositionZeroCaught ==
    pc = "cheated" => result = "False"

----------------------------------------------------------------------------
(* A prover and a verifier called repeatedly (TestProtocol): the prover is    *)
(* built once on the committed batch, shuffle_and_prove and check are then    *)
(* called in any order.  The prover's messages and openings are the lists     *)
(* the caller keeps and passes to check.                                       *)

\* random.randint(1, p - 2) of shuffle_and_prove: both ends of the range
CallRerandDraws(p) == { d \in randint(1, p - 2) : d = 1 \/ d = p - 2 }

\* setUp: the batch is committed and the prover built on it
InitCalls == InitShuffle

\* outputs, perm_msgs, output_openings, perm = self.prover.shuffle_and_prove()
ShuffleAndProveCall ==
    /\ pc = "ready" /\ calls < MaxCalls
    /\ \E pm \in random_permutation(Len(messages)),
          rr \in [1..Len(messages) -> CallRerandDraws(ped.p)] :
          LET res == ProtocolProver_shuffle_and_prove(
                         ped, messages, input_openings, pm, rr)
          IN /\ res.status = "ok"
             /\ outputs' = res.value.outputs
             /\ perm_msgs' = res.value.perm_msgs
             /\ output_openings' = res.value.output_openings
             /\ perm' = res.value.perm
             /\ rerands' = rr
             /\ messages' = apply_permutation_leaves(messages, pm)
             /\ input_openings' = apply_permutation_leaves(input_openings, pm)
    /\ calls' = calls + 1
    /\ subset' = <<>> /\ result' = "none"
    /\ UNCHANGED <<ped, inputs, com, ver, pc>>

\* ok = self.verifier.check(list(range(n)), self.inputs, self.input_openings,
\*                          outputs, output_openings, perm)
CheckCall ==
    /\ pc = "ready" /\ calls >= 1
    /\ subset' = Range(Len(messages))
    /\ result' = ProtocolVerifier_check(ped, subset', inputs, input_openings,
                                        outputs, output_openings, perm)
    /\ UNCHANGED <<ped, messages, inputs, input_openings, perm, rerands, outputs,
                   perm_msgs, output_openings, com, ver, calls, pc>>

NextCalls == ShuffleAndProveCall \/ CheckCall

SpecCalls == InitCalls /\ [][NextCalls]_vars

\* C11: no call changes the prover's messages and openings or the input
\* commitments, a check changes none of the lists passed to it, and the
\* transcript of every shuffle_and_prove call, the first as the later ones,
\* passes Verifier.check on the full index set against the original inputs
\* and input openings.
C11_CallsIndependentReadOnly ==
    /\ [][/\ messages' = messages
          /\ input_openings' = input_openings
          /\ inputs' = inputs
          /\ calls' = calls =>
                /\ outputs' = outputs /\ output_openings' = output_openings
                /\ perm' = perm /\ subset' = Range(Len(messages))]_vars
    /\ [](calls >= 1 =>
            ProtocolVerifier_check(ped, Range(Len(messages)), inputs,
                                   input_openings, outputs, output_openings,
                                   perm) = "True")
    /\ [](result # "none" => result = "True")

C11_Witness ==
    /\ calls >= 2 /\ result = "True" /\ Len(messages) >= 2
    /\ perm # Range(Len(messages))

----------------------------------------------------------------------------
(* A protocol run to its verdict, with an honest or a cheating shuffle: the   *)
(* steps of run_protocol_once, the check being either the honest one on the   *)
(* full index set or the one of test_cheating_shuffle_fails.  The code is     *)
(* straight-line, so a step that can be taken is taken.                       *)

\* Variant that shuffles again when the check fails
CheatingCheck_Retry ==
    /\ pc = "verify" /\ Len(messages) >= 2
    /\ LET j == At(invert_permutation(perm), 0)
           bad_outputs == Corrupt(outputs, j, (At(outputs, j) * 5) % ped.p)
       IN /\ subset' = <<0, 1>>
          /\ result' = ProtocolVerifier_check(ped, subset', inputs, input_openings,
                                              bad_outputs, output_openings, perm)
    /\ pc' = IF result' = "False" THEN "shuffle" ELSE "done"
    /\ UNCHANGED <<ped, messages, inputs, input_openings, perm, rerands, outputs,
                   perm_msgs, output_openings, com, ver, calls>>

\* test_cheating_shuffle_fails: the output at inv_perm[0] is multiplied by 5
\* and the transcript checked on the subset [0, 1]
CheatingCheck ==
    /\ pc = "verify" /\ Len(messages) >= 2
    /\ LET j == At(invert_permutation(perm), 0)
           bad_outputs == Corrupt(outputs, j, (At(outputs, j) * 5) % ped.p)
       IN /\ subset' = <<0, 1>>
          /\ result' = ProtocolVerifier_check(ped, subset', inputs, input_openings,
                                              bad_outputs, output_openings, perm)
    /\ pc' = "done"
    /\ UNCHANGED <<ped, messages, inputs, input_openings, perm, rerands, outputs,
                   perm_msgs, output_openings, com, ver, calls>>

NextRun == CommitNext \/ ShuffleAndProve \/ Check \/ CheatingCheck

SpecRun == Init /\ [][NextRun]_vars /\ WF_vars(NextRun)

\* The phase of the run
Phase ==
    CASE pc = "commit" /\ inputs = <<>>       -> "Setup"
      [] pc = "commit" /\ inputs # <<>>       -> "Commit"
      [] pc = "shuffle"                       -> "Shuffle"
      [] pc = "verify"                        -> "Disclose"
      [] pc = "done" /\ result = "True"       -> "Accept"
      [] pc = "done" /\ result = "False"      -> "Reject"
      [] OTHER                                -> "none"

\* C12: a run goes through commit, shuffle, disclosure and verification in
\* that order (every message is committed before the shuffle, the outputs,
\* the permutation and the new openings are there before the check), it
\* eventually ends in Accept or Reject, the verdict being the boolean the
\* check returned, and no step follows the verdict.
C12_RunReachesOneFinalVerdict ==
    /\ [][/\ Phase = "Setup" => Phase' \in {"Commit", "Shuffle"}
          /\ Phase = "Commit" => Phase' \in {"Commit", "Shuffle"}
          /\ Phase' = "Shuffle" =>
                Len(inputs') = Len(messages) /\ outputs' = <<>> /\ perm' = <<>>
          /\ Phase = "Shuffle" =>
                /\ Phase' = "Disclose" /\ result' = "none"
                /\ Len(outputs') = Len(messages) /\ Len(perm') = Len(messages)
                /\ Len(output_openings') = Len(messages)
          /\ Phase = "Disclose" => Phase' \in {"Accept", "Reject"}
          /\ Phase \notin {"Accept", "Reject", "none"}]_vars
    /\ [](Phase # "none")
    /\ <>(Phase \in {"Accept", "Reject"})

C12_Witness ==
    /\ Phase = "Reject" /\ subset = <<0, 1>> /\ perm # Range(Len(messages))

====
